---------------------------- MODULE Spec2Model ----------------------------
(***************************************************************************)
(* BambooFilter (src/main.cpp, lines 128-248): a cuckoo filter with 16-bit *)
(* fingerprints and segment-by-segment expansion; and MyBambooFilter       *)
(* (src/main.cpp, lines 306-528): a cuckoo filter that stores the full     *)
(* hash beside each fingerprint and rebuilds the whole table when it       *)
(* expands.                                                                *)
(*                                                                         *)
(* Three specifications share the module:                                  *)
(*   Spec     the calls made on a BambooFilter,                            *)
(*   SpecMy   the calls made on a MyBambooFilter,                          *)
(*   SpecAlt  the two alternate-index functions applied to drawn inputs.   *)
(* Each leaves the variables of the other two at their idle values.        *)
(*                                                                         *)
(* A key is represented by the value of std::hash<std::string> on it: both *)
(* idxHash and makeFp are functions of that value only, so two keys with   *)
(* the same hash value are indistinguishable to the filter.                *)
(*                                                                         *)
(* A table (std::vector<std::vector<Fp>>) is a function from 0..n-1 to     *)
(* sequences of fingerprints; a bucket keeps the order of its vector.      *)
(***************************************************************************)
EXTENDS Integers, Sequences, FiniteSets, TLC

VARIABLES
    old_, new_,            \* the two tables
    oldCap_, newCap_,      \* their recorded capacities
    B_, loadF_,            \* slots per bucket; threshold <<num, den>> = num/den
    maxEvict_, segSz_,     \* eviction chain depth; buckets drained per insert
    expanding_, migrateCursor_, size_,
    \* history of the calls made from main(): which call ran last, on which
    \* key, what it returned, and how the call went
    lastOp, lastKey, lastRes, lastStep,
    okKeys,                \* keys whose insert returned true so far
    preKeys,               \* okKeys at the moment the current expansion started
    midKeys,               \* keys whose insert returned true while expanding_
    hist,                  \* counters and flags about the run so far
    \* MyBambooFilter's members
    table_, num_buckets_, slots_per_bucket_, max_load_factor_,
    max_cuckoo_kicks_, current_items_count_,
    \* an alternate-index function under repeated application: [fn, cap, fp,
    \* trail], trail being the start index followed by each result in turn
    call

filterVars == <<old_, new_, oldCap_, newCap_, expanding_, migrateCursor_, size_>>
configVars == <<B_, loadF_, maxEvict_, segSz_>>
histVars   == <<lastOp, lastKey, lastRes, lastStep, okKeys, preKeys, midKeys, hist>>
myVars     == <<table_, num_buckets_, slots_per_bucket_, max_load_factor_,
                max_cuckoo_kicks_, current_items_count_>>
vars       == <<filterVars, configVars, histVars, myVars, call>>

----------------------------------------------------------------------------
(* Bounds of the model *)

\* No expansion is started that would make a table longer than MaxCap.
MaxCap == 8

\* The hash values of the keys handed to insert and contains.
\*   1, 5, 9 : bucket 1 for capacity 4; 5 goes to bucket 5 for capacity 8
\*   4, 12   : bucket 0 for capacity 4, bucket 4 for capacity 8
\*   2       : bucket 2
Keys == {1, 2, 4, 5, 9, 12}

----------------------------------------------------------------------------
(* Program constants *)

\* 0x5bd1e995, the multiplier of altIndex
Mix == 1540483477

\* makeFp keeps H(s) & 0xffffu: the hash modulo FpRange
FpRange == 65536

----------------------------------------------------------------------------
(* Arithmetic helpers *)

Min(a, b) == IF a <= b THEN a ELSE b

RECURSIVE Xor(_, _)
\* bitwise exclusive or of two naturals (operator ^ on std::size_t)
Xor(a, b) ==
    IF a = 0 THEN b
    ELSE IF b = 0 THEN a
    ELSE 2 * Xor(a \div 2, b \div 2) + (((a % 2) + (b % 2)) % 2)

RECURSIVE Pow2Geq(_, _)
\* the smallest power of two that is >= n, starting from the power of two p
Pow2Geq(n, p) == IF p >= n THEN p ELSE Pow2Geq(n, 2 * p)

IsPow2(n) == n >= 1 /\ Pow2Geq(n, 1) = n

\* (a * b) % m without forming a * b
MulMod(a, b, m) == ((a % m) * (b % m)) % m

----------------------------------------------------------------------------
(* Hash derivation *)

idxHash(key) == key

makeFp(key) == key % FpRange

\* (i ^ (size_t(fp) * 0x5bd1e995)) % cap, for i < cap.  The product g is below
\* 2^47, so nothing wraps in the 64-bit size_t.  With P a power of two above
\* i, i ^ g = (g - g % P) + (i ^ (g % P)); each part is reduced modulo cap on
\* its own so that no intermediate value leaves the range of the checker's
\* integers.
\* altIndex with + in the place of ^
altIndexAdd(i, fp, cap) == (i + MulMod(fp, Mix, cap)) % cap

altIndex(i, fp, cap) ==
    LET P       == Pow2Geq(cap, 1)
        gLow    == MulMod(fp, Mix, P)
        gModCap == MulMod(fp, Mix, cap)
        gHigh   == (gModCap + cap - (gLow % cap)) % cap
    IN  (gHigh + Xor(i, gLow)) % cap

\* MyBambooFilter::alt_index_from_fp_val: the same expression,
\* (primary_idx ^ (uint64_t(fp) * 0x5bd1e995ULL)) % num_buckets_param
alt_index_from_fp_val(primary_idx, fp, num_buckets_param) ==
    LET P       == Pow2Geq(num_buckets_param, 1)
        gLow    == MulMod(fp, Mix, P)
        gModCap == MulMod(fp, Mix, num_buckets_param)
        gHigh   == (gModCap + num_buckets_param - (gLow % num_buckets_param))
                       % num_buckets_param
    IN  (gHigh + Xor(primary_idx, gLow)) % num_buckets_param

----------------------------------------------------------------------------
(* Bucket table *)

RECURSIVE Table(_)
\* std::vector<std::vector<Fp>> of n empty buckets: the function on 0..n-1
\* that is <<>> everywhere, written out bucket by bucket
Table(n) == IF n = 0 THEN <<>> ELSE Table(n - 1) @@ ((n - 1) :> <<>>)

\* arr.size()
TableSize(arr) == Cardinality(DOMAIN arr)

has(arr, idx, fp) ==
    IF idx >= TableSize(arr) THEN FALSE
    ELSE \E j \in 1..Len(arr[idx]) : arr[idx][j] = fp

\* tryPut without the size check
tryPutUnchecked(arr, idx, fp) ==
    [ok |-> TRUE, arr |-> [arr EXCEPT ![idx] = Append(@, fp)]]

tryPut(arr, idx, fp) ==
    IF Len(arr[idx]) < B_
    THEN [ok |-> TRUE,  arr |-> [arr EXCEPT ![idx] = Append(@, fp)]]
    ELSE [ok |-> FALSE, arr |-> arr]

RECURSIVE cuckoo(_, _, _, _)
\* Every outcome [ok, arr] of cuckoo(arr, idx, fp, depth), one for each choice
\* the random engine can make for the evicted slot at each level.
cuckoo(arr, idx, fp, depth) ==
    IF depth >= maxEvict_ THEN {[ok |-> FALSE, arr |-> arr]}
    ELSE IF Len(arr[idx]) = 0 THEN {[ok |-> FALSE, arr |-> arr]}
    ELSE UNION {
        LET victim == arr[idx][d]
            arr1   == [arr EXCEPT ![idx][d] = fp]
            alt    == altIndex(idx, victim, TableSize(arr))
            put    == tryPut(arr1, alt, victim)
        IN  IF put.ok THEN {[ok |-> TRUE, arr |-> put.arr]}
            ELSE cuckoo(arr1, alt, victim, depth + 1)
        : d \in 1..Len(arr[idx]) }

----------------------------------------------------------------------------
(* Query router *)

\* contains(key) evaluated on the members f of a filter
containsIn(f, key) ==
    LET fp == makeFp(key)
        i1 == idxHash(key) % f.oldCap
        i2 == altIndex(i1, fp, f.oldCap)
    IN  IF has(f.old, i1, fp) \/ has(f.old, i2, fp) THEN TRUE
        ELSE IF f.expanding
             THEN LET ni1 == i1 % f.newCap
                      ni2 == altIndex(ni1, fp, f.newCap)
                  IN  has(f.new, ni1, fp) \/ has(f.new, ni2, fp)
             ELSE FALSE

\* the members of the filter in the current state
Members ==
    [old |-> old_, new |-> new_, oldCap |-> oldCap_, newCap |-> newCap_,
     expanding |-> expanding_, cursor |-> migrateCursor_]

contains(key) == containsIn(Members, key)

\* capacity() that reports the old table alone
capacityOldOnly == oldCap_

capacity == IF expanding_ THEN oldCap_ + newCap_ ELSE oldCap_

----------------------------------------------------------------------------
(* Expansion controller *)

\* float(size_) / float(oldCap_*B_) <= loadF_ is false: the quotient of the
\* two counters against the threshold num/den.  A zero divisor gives inf or
\* NaN, and both make the comparison lf <= loadF_ false.
\* the comparison with lf < loadF_ in the place of lf <= loadF_
loadReached(size, cap) ==
    IF cap * B_ = 0 THEN TRUE
    ELSE size * loadF_[2] >= loadF_[1] * cap * B_

loadExceeded(size, cap) ==
    IF cap * B_ = 0 THEN TRUE
    ELSE size * loadF_[2] > loadF_[1] * cap * B_

\* The three placement attempts of migrateSegment for one fingerprint: every
\* table the attempts can leave.
\* the migration of one fingerprint that goes for the alternate of bucket i1
migrateFpAlternate(new, i1, fp, newCap) ==
    LET i2  == altIndex(i1, fp, newCap)
        put == tryPut(new, i2, fp)
    IN  IF put.ok THEN {put.arr}
        ELSE UNION {
            IF c1.ok THEN {c1.arr}
            ELSE {c2.arr : c2 \in cuckoo(c1.arr, i1, fp, 0)}
            : c1 \in cuckoo(new, i2, fp, 0) }

migrateFp(new, i1, fp, newCap) ==
    LET put == tryPut(new, i1, fp)
    IN  IF put.ok THEN {put.arr}
        ELSE UNION {
            IF c1.ok THEN {c1.arr}
            ELSE {c2.arr : c2 \in cuckoo(c1.arr, altIndex(i1, fp, newCap), fp, 0)}
            : c1 \in cuckoo(new, i1, fp, 0) }

RECURSIVE migrateBucket(_, _, _, _, _)
\* for (Fp fp : old_[b]) from position j on
migrateBucket(new, bucket, j, b, newCap) ==
    IF j > Len(bucket) THEN {new}
    ELSE UNION { migrateBucket(n1, bucket, j + 1, b, newCap)
                 : n1 \in migrateFp(new, b % newCap, bucket[j], newCap) }

RECURSIVE drain(_, _)
\* the loop for (; migrateCursor_ < end; ++migrateCursor_)
drain(f, end) ==
    IF f.cursor >= end THEN {f}
    ELSE UNION {
        drain([f EXCEPT !.new = n1,
                        !.old = [f.old EXCEPT ![f.cursor] = <<>>],
                        !.cursor = f.cursor + 1], end)
        : n1 \in migrateBucket(f.new, f.old[f.cursor], 1, f.cursor, f.newCap) }

\* migrateSegment that finalizes only in the call after the one in which the
\* cursor reached the end of old_
migrateSegmentLate(f) ==
    IF f.cursor = f.oldCap
    THEN {[f EXCEPT !.old = f.new, !.oldCap = f.newCap,
                    !.new = Table(0), !.newCap = 0, !.expanding = FALSE]}
    ELSE drain(f, Min(f.cursor + segSz_, f.oldCap))

\* migrateSegment whose finalization leaves new_ and newCap_ as they are
migrateSegmentKeepNew(f) ==
    { IF g.cursor = g.oldCap
      THEN [g EXCEPT !.old = g.new, !.oldCap = g.newCap, !.expanding = FALSE]
      ELSE g
      : g \in drain(f, Min(f.cursor + segSz_, f.oldCap)) }

migrateSegment(f) ==
    LET end == Min(f.cursor + segSz_, f.oldCap)
    IN  { IF g.cursor = g.oldCap
          THEN [g EXCEPT !.old = g.new, !.oldCap = g.newCap,
                         !.new = Table(0), !.newCap = 0, !.expanding = FALSE]
          ELSE g
          : g \in drain(f, end) }

\* maybeExpand with the drain step skipped in the call that starts the
\* expansion (migrateSegment only reached when already expanding)
maybeExpandStartOnly(f, size) ==
    IF ~f.expanding
    THEN IF ~loadExceeded(size, f.oldCap) THEN {f}
         ELSE {[f EXCEPT !.newCap = f.oldCap * 2,
                         !.new = Table(f.oldCap * 2),
                         !.expanding = TRUE,
                         !.cursor = 0]}
    ELSE migrateSegment(f)

maybeExpand(f, size) ==
    IF ~f.expanding
    THEN IF ~loadExceeded(size, f.oldCap) THEN {f}
         ELSE migrateSegment([f EXCEPT !.newCap = f.oldCap * 2,
                                       !.new = Table(f.oldCap * 2),
                                       !.expanding = TRUE,
                                       !.cursor = 0])
    ELSE migrateSegment(f)


\* a contains that, like insert, takes a drain step when an expansion is in
\* progress
containsEffectMigrating(f, key) ==
    IF f.expanding THEN migrateSegment(f) ELSE {f}

\* the members after contains(key): the function and has() assign to none
containsEffect(f, key) == {f}

----------------------------------------------------------------------------
(* insert *)

\* the placement that starts at the alternate bucket and then goes on to the
\* primary one
placeAlternateFirst(arr, key, cap) ==
    LET fp == makeFp(key)
        i2 == idxHash(key) % cap
        i1 == altIndex(i2, fp, cap)
        p1 == tryPut(arr, i1, fp)
    IN  IF p1.ok THEN {[ok |-> TRUE, arr |-> p1.arr, attempt |-> 1]}
        ELSE UNION {
            IF c1.ok THEN {[ok |-> TRUE, arr |-> c1.arr, attempt |-> 2]}
            ELSE LET p2 == tryPut(c1.arr, i2, fp)
                 IN  IF p2.ok
                     THEN {[ok |-> TRUE, arr |-> p2.arr, attempt |-> 3]}
                     ELSE {[ok |-> c2.ok, arr |-> c2.arr,
                            attempt |-> IF c2.ok THEN 4 ELSE 0]
                           : c2 \in cuckoo(c1.arr, i2, fp, 0)}
            : c1 \in cuckoo(arr, i1, fp, 0) }

\* The placement of insert (the two candidates, put then cuckoo at each):
\* every outcome [ok, arr, attempt], attempt being the one of the four that
\* succeeded (1 tryPut(i1), 2 cuckoo(i1), 3 tryPut(i2), 4 cuckoo(i2), 0 none).
place(arr, key, cap) ==
    LET fp == makeFp(key)
        i1 == idxHash(key) % cap
        p1 == tryPut(arr, i1, fp)
    IN  IF p1.ok THEN {[ok |-> TRUE, arr |-> p1.arr, attempt |-> 1]}
        ELSE UNION {
            IF c1.ok THEN {[ok |-> TRUE, arr |-> c1.arr, attempt |-> 2]}
            ELSE LET i2 == altIndex(i1, fp, cap)
                     p2 == tryPut(c1.arr, i2, fp)
                 IN  IF p2.ok
                     THEN {[ok |-> TRUE, arr |-> p2.arr, attempt |-> 3]}
                     ELSE {[ok |-> c2.ok, arr |-> c2.arr,
                            attempt |-> IF c2.ok THEN 4 ELSE 0]
                           : c2 \in cuckoo(c1.arr, i2, fp, 0)}
            : c1 \in cuckoo(arr, i1, fp, 0) }

\* insert with ++size_ done before the placement, whatever its result
insertCountsOverflow(f, size, key) ==
    IF containsIn(f, key)
    THEN {[f |-> f, size |-> size, ret |-> TRUE, dedup |-> TRUE,
           attempt |-> 0, mid |-> f]}
    ELSE UNION {
        {[f |-> [g EXCEPT !.old = out.arr],
          size |-> size + 1,
          ret |-> out.ok, dedup |-> FALSE, attempt |-> out.attempt, mid |-> g]
         : out \in place(g.old, key, g.oldCap)}
        : g \in maybeExpand(f, size) }

\* insert(key) on the members f and the counter size: every outcome
\* [f, size, ret, dedup, attempt, mid], mid being the members right after
\* maybeExpand.
insert(f, size, key) ==
    IF containsIn(f, key)
    THEN {[f |-> f, size |-> size, ret |-> TRUE, dedup |-> TRUE,
           attempt |-> 0, mid |-> f]}
    ELSE UNION {
        {[f |-> [g EXCEPT !.old = out.arr],
          size |-> IF out.ok THEN size + 1 ELSE size,
          ret |-> out.ok, dedup |-> FALSE, attempt |-> out.attempt, mid |-> g]
         : out \in place(g.old, key, g.oldCap)}
        : g \in maybeExpand(f, size) }

----------------------------------------------------------------------------
(* Observers used by the history variables and the properties *)

Fps == {makeFp(k) : k \in Keys}

RECURSIVE CountInBucket(_, _, _)
CountInBucket(bucket, j, fp) ==
    IF j > Len(bucket) THEN 0
    ELSE (IF bucket[j] = fp THEN 1 ELSE 0) + CountInBucket(bucket, j + 1, fp)

RECURSIVE CountInTable(_, _, _)
\* occurrences of fp in the buckets i, i+1, ... of arr
CountInTable(arr, i, fp) ==
    IF i >= TableSize(arr) THEN 0
    ELSE CountInBucket(arr[i], 1, fp) + CountInTable(arr, i + 1, fp)

\* the multiset of the fingerprints a table stores
TableBag(arr) == [fp \in Fps |-> CountInTable(arr, 0, fp)]

\* bucket by bucket
BucketBags(arr) ==
    [i \in DOMAIN arr |-> [fp \in Fps |-> CountInBucket(arr[i], 1, fp)]]

BagPlus(bag, fp) == [bag EXCEPT ![fp] = @ + 1]

BagSum(b1, b2) == [fp \in Fps |-> b1[fp] + b2[fp]]

\* A placement that lost a stored fingerprint: the table does not hold what
\* it held before plus, when the insert succeeded, the new fingerprint.
PlacementLost(before, after, ok, key) ==
    TableBag(after) /= (IF ok THEN BagPlus(TableBag(before), makeFp(key))
                        ELSE TableBag(before))

RECURSIVE RangeCount(_, _, _, _)
\* occurrences of fp in the buckets lo .. hi-1 of arr
RangeCount(arr, lo, hi, fp) ==
    IF lo >= hi THEN 0
    ELSE CountInBucket(arr[lo], 1, fp) + RangeCount(arr, lo + 1, hi, fp)

\* A drain step that lost a fingerprint: the new table (g.old once the
\* migration is finalized) does not hold what it held before plus what the
\* drained buckets of the old table held.
MigrationLost(f, g) ==
    LET from      == IF f.expanding THEN f.cursor ELSE 0
        to        == Min(from + segSz_, f.oldCap)
        newBefore == IF f.expanding THEN TableBag(f.new) ELSE [fp \in Fps |-> 0]
        newAfter  == IF g.expanding THEN TableBag(g.new) ELSE TableBag(g.old)
    IN  newAfter /= [fp \in Fps |-> newBefore[fp] + RangeCount(f.old, from, to, fp)]

----------------------------------------------------------------------------
(* Configurations *)

\* One set of constructor arguments <<cap, bucketSz, loadFac, maxEvict, segSz>>
Cfg(c, b, l, m, s) ==
    [cap |-> c, B |-> b, loadF |-> l, maxEvict |-> m, segSz |-> s]

\* The arguments BambooFilter's constructor is called with (main() passes the
\* command line's values on unchecked).  The constructor takes every one of
\* them; the last has a segment size above the capacity.
Configs ==
    { Cfg(4, 1, <<1, 2>>, 1, 2),    \* expansion 4 -> 8 in two drain steps
      Cfg(4, 2, <<1, 4>>, 1, 1),    \* two slots per bucket, four drain steps
      Cfg(4, 1, <<1, 4>>, 0, 1),    \* no eviction at all
      Cfg(8, 1, <<1, 1>>, 1, 1),    \* threshold 1.0: never expands
      Cfg(5, 1, <<1, 1>>, 4, 1),    \* a capacity that is no power of two
      Cfg(4, 1, <<1, 2>>, 1, 8) }   \* segSz > cap

\* The constructor: members as initialised by lines 134-137 and 241-247.
Construct(cfg) ==
    /\ old_ = Table(cfg.cap)
    /\ new_ = Table(0)
    /\ oldCap_ = cfg.cap
    /\ newCap_ = 0
    /\ B_ = cfg.B
    /\ loadF_ = cfg.loadF
    /\ maxEvict_ = cfg.maxEvict
    /\ segSz_ = cfg.segSz
    /\ expanding_ = FALSE
    /\ migrateCursor_ = 0
    /\ size_ = 0

NoStep == [dedup |-> FALSE, attempt |-> 0, started |-> FALSE, finalized |-> FALSE]

\* no MyBambooFilter has been constructed
MyIdle ==
    /\ table_ = <<>>
    /\ num_buckets_ = 0
    /\ slots_per_bucket_ = 0
    /\ max_load_factor_ = <<0, 1>>
    /\ max_cuckoo_kicks_ = 0
    /\ current_items_count_ = 0

\* no alternate-index function is being applied
CallIdle ==
    call = [fn |-> "none", cap |-> 1, fp |-> 0, trail |-> <<0>>]

Init ==
    /\ \E cfg \in Configs : Construct(cfg)
    /\ MyIdle
    /\ CallIdle
    /\ lastOp = "construct"
    /\ lastKey = 0
    /\ lastRes = TRUE
    /\ lastStep = NoStep
    /\ okKeys = {}
    /\ preKeys = {}
    /\ midKeys = {}
    /\ hist = [overflowed |-> FALSE, lossy |-> FALSE, expansions |-> 0,
               sinceStart |-> 0, startCap |-> 0, cap0 |-> oldCap_]

----------------------------------------------------------------------------
(* Actions: the calls main() makes on the filter *)

\* An insert that would start an expansion is only taken while the doubled
\* table stays within MaxCap.
WithinBound ==
    expanding_ \/ ~loadExceeded(size_, oldCap_) \/ 2 * oldCap_ <= MaxCap

Insert(key) ==
    /\ contains(key) \/ WithinBound
    /\ \E r \in insert(Members, size_, key) :
        LET started   == ~r.dedup /\ ~expanding_ /\ loadExceeded(size_, oldCap_)
            finalized == ~r.dedup /\ (expanding_ \/ started) /\ ~r.mid.expanding
            lost      == ~r.dedup /\
                         (\/ PlacementLost(r.mid.old, r.f.old, r.ret, key)
                          \/ (expanding_ \/ started) /\ MigrationLost(Members, r.mid))
        IN  /\ old_' = r.f.old
            /\ new_' = r.f.new
            /\ oldCap_' = r.f.oldCap
            /\ newCap_' = r.f.newCap
            /\ expanding_' = r.f.expanding
            /\ migrateCursor_' = r.f.cursor
            /\ size_' = r.size
            /\ lastOp' = "insert"
            /\ lastKey' = key
            /\ lastRes' = r.ret
            /\ lastStep' = [dedup |-> r.dedup, attempt |-> r.attempt,
                            started |-> started, finalized |-> finalized]
            /\ okKeys' = IF r.ret THEN okKeys \cup {key} ELSE okKeys
            /\ preKeys' = IF started THEN {k \in okKeys : contains(k)}
                           ELSE preKeys
            /\ midKeys' = (IF started THEN {} ELSE midKeys) \cup
                          (IF ~r.dedup /\ r.ret /\ r.f.expanding
                           THEN {key} ELSE {})
            /\ hist' = [hist EXCEPT
                          !.overflowed = @ \/ ~r.ret,
                          !.lossy = @ \/ lost,
                          !.expansions = IF finalized THEN @ + 1 ELSE @,
                          !.sinceStart = IF started THEN 1
                                         ELSE IF expanding_ /\ ~r.dedup THEN @ + 1
                                         ELSE @,
                          !.startCap = IF started THEN oldCap_ ELSE @]
    /\ UNCHANGED <<configVars, myVars, call>>

Contains(key) ==
    /\ \E g \in containsEffect(Members, key) :
          /\ old_' = g.old
          /\ new_' = g.new
          /\ oldCap_' = g.oldCap
          /\ newCap_' = g.newCap
          /\ expanding_' = g.expanding
          /\ migrateCursor_' = g.cursor
    /\ size_' = size_
    /\ lastOp' = "contains"
    /\ lastKey' = key
    /\ lastRes' = contains(key)
    /\ lastStep' = NoStep
    /\ UNCHANGED <<configVars, okKeys, preKeys, midKeys, hist>>
    /\ UNCHANGED <<myVars, call>>

\* bf.capacity(), a const member: only its result is recorded
Capacity ==
    /\ lastOp' = "capacity"
    /\ lastKey' = 0
    /\ lastRes' = capacity
    /\ lastStep' = NoStep
    /\ UNCHANGED <<filterVars, configVars, okKeys, preKeys, midKeys, hist>>
    /\ UNCHANGED <<myVars, call>>

Next ==
    \/ \E key \in Keys : Insert(key)
    \/ \E key \in Keys : Contains(key)
    \/ Capacity

Spec == Init /\ [][Next]_vars

----------------------------------------------------------------------------
(* Properties *)

\* the number of fingerprints a table stores
RECURSIVE Stored(_, _)
Stored(arr, i) ==
    IF i >= TableSize(arr) THEN 0 ELSE Len(arr[i]) + Stored(arr, i + 1)

\* the last call was an insert that went through placement
Placed == lastOp = "insert" /\ ~lastStep.dedup

\* C1: power-of-two capacity, no expansion ever started, every insert so far
\* returned true: contains is true of every key inserted.
C1_NoFalseNegativeSteady ==
    (IsPow2(hist.cap0) /\ hist.expansions = 0 /\ ~expanding_ /\ ~hist.overflowed)
        => \A k \in okKeys : contains(k)

\* C2: right after insert(k) returned true, contains(k) is true.
C2_InsertThenContains ==
    (lastOp = "insert" /\ lastRes) => contains(lastKey)

\* C3: while expanding_, contains is true of every key that was inserted (and
\* visible) before the expansion started, provided no placement and no drain
\* step has lost a fingerprint.
C3_MidMigrationRecall ==
    (expanding_ /\ ~hist.lossy) => \A k \in preKeys : contains(k)

\* C4: once the migration is finalized (capacity doubled, expanding_ false),
\* contains is true of every key inserted before that migration started,
\* provided no placement and no drain step has lost a fingerprint.
C4_RecallAfterMigration ==
    (~expanding_ /\ hist.expansions >= 1 /\ oldCap_ = 2 * hist.startCap
        /\ ~hist.lossy)
        => \A k \in preKeys : contains(k)

\* C5: a key placed by an insert that returned true while expanding_ stays
\* visible after every later insert, the finalizing one included, provided
\* no placement and no drain step has lost a fingerprint.
C5_MidInsertStaysVisible ==
    ~hist.lossy => \A k \in midKeys : contains(k)

\* C6: an insert of a key that contains already reports returns true and
\* changes no member of the filter; and an insert of the key whose insert
\* just returned true does not raise size_ again.
C6_IdempotentInsert ==
    [][ /\ (lastOp' = "insert" /\ contains(lastKey'))
            => (lastRes' /\ lastStep'.dedup /\ UNCHANGED filterVars)
        /\ (lastOp = "insert" /\ lastRes /\ lastOp' = "insert" /\ lastKey' = lastKey)
            => size_' = size_ ]_vars

\* C7: an insert that is not deduplicated returns true exactly when one of
\* tryPut(i1), cuckoo(i1), tryPut(i2), cuckoo(i2) succeeded, and then size_
\* and the number of fingerprints in old_ grow by exactly one; otherwise it
\* returns false and both stay as they were after maybeExpand.
C7_InsertResultAndSize ==
    [][ (lastOp' = "insert" /\ ~lastStep'.dedup)
        => /\ lastRes' <=> lastStep'.attempt \in 1..4
           /\ size_' = size_ + (IF lastRes' THEN 1 ELSE 0)
           /\ \E g \in maybeExpand(Members, size_) :
                 /\ oldCap_' = g.oldCap
                 /\ Stored(old_', 0) = Stored(g.old, 0) + (IF lastRes' THEN 1 ELSE 0)
      ]_vars

\* C7 witness: a non-deduplicated insert has returned false on a filter that
\* holds fingerprints.
C7_Witness == Placed /\ ~lastRes /\ lastStep.attempt = 0 /\ size_ >= 1

\* C8: when insert returns false, every bucket of old_ holds the multiset of
\* fingerprints it held right after maybeExpand, before the placement.
C8_OverflowLeavesTable ==
    [][ (lastOp' = "insert" /\ ~lastRes')
        => \E g \in maybeExpand(Members, size_) :
              BucketBags(old_') = BucketBags(g.old) ]_vars

\* C9: no filter exists whose configuration is invalid: capacity 0, bucket
\* size 0, threshold outside (0,1], segment size 0 or above the capacity.
C9_ValidConfiguration ==
    /\ hist.cap0 >= 1
    /\ B_ >= 1
    /\ 0 < loadF_[1] /\ loadF_[1] <= loadF_[2]
    /\ 1 <= segSz_ /\ segSz_ <= hist.cap0

\* C10: an expansion is over after at most ceil(C_old / segSz_) inserts that
\* are not deduplicated, the one that started it included: while expanding_
\* the n inserts made so far have drained n * segSz_ < C_old buckets, and
\* once it is over capacity() is twice the C_old it started at.
C10_ExpansionCompletes ==
    /\ expanding_ =>
          /\ oldCap_ = hist.startCap
          /\ hist.sinceStart >= 1
          /\ migrateCursor_ = hist.sinceStart * segSz_
          /\ hist.sinceStart * segSz_ < hist.startCap
    /\ (~expanding_ /\ hist.expansions >= 1) =>
          /\ (hist.sinceStart - 1) * segSz_ < hist.startCap
          /\ hist.sinceStart * segSz_ >= hist.startCap
          /\ capacity = 2 * hist.startCap

\* C10 witness: an expansion that took more than one insert has just been
\* finalized and capacity() has doubled.
C10_Witness ==
    /\ Placed /\ lastStep.finalized /\ ~lastStep.started
    /\ ~expanding_ /\ hist.sinceStart >= 2
    /\ capacity = 2 * hist.startCap

\* C12: capacity() returns the number of buckets of old_ plus that of new_
\* while expanding_, and the number of buckets of old_ otherwise.
C12_CapacityResult ==
    lastOp = "capacity" =>
        lastRes = (IF expanding_ THEN TableSize(old_) + TableSize(new_)
                   ELSE TableSize(old_))

\* C12 witness: capacity() has been called in the middle of an expansion
\* and after one.
C12_Witness ==
    /\ lastOp = "capacity" /\ expanding_ /\ migrateCursor_ >= 1
    /\ lastRes = 3 * TableSize(old_)

\* C16: between operations every bucket of old_ and of new_ holds at most
\* B_ fingerprints.
C16_BucketBound ==
    /\ \A b \in DOMAIN old_ : Len(old_[b]) <= B_
    /\ \A b \in DOMAIN new_ : Len(new_[b]) <= B_

\* C16 witness: with two slots per bucket, a cuckoo chain has just placed a
\* fingerprint, a bucket of old_ is full and so is a bucket of new_.
C16_Witness ==
    /\ B_ = 2 /\ Placed /\ lastStep.attempt \in {2, 4}
    /\ \E b \in DOMAIN old_ : Len(old_[b]) = B_
    /\ expanding_ /\ \E b \in DOMAIN new_ : Len(new_[b]) = B_

\* the fingerprint of key is stored in arr at the key's primary or alternate
\* index for the capacity cap
AtCandidate(arr, key, cap) ==
    LET fp == makeFp(key)
        i1 == idxHash(key) % cap
    IN  has(arr, i1, fp) \/ has(arr, altIndex(i1, fp, cap), fp)

\* C17: while expanding_ is false, on a filter built with a power-of-two
\* capacity, the fingerprint of every key whose insert returned true is in
\* old_ at the key's primary or alternate index for the current capacity,
\* provided no placement and no drain step has lost a fingerprint.
C17_SteadyPlacement ==
    (~expanding_ /\ IsPow2(hist.cap0) /\ ~hist.lossy)
        => \A k \in okKeys : AtCandidate(old_, k, TableSize(old_))

\* C18: while expanding_, every bucket of old_ below migrateCursor_ is empty.
C18_DrainedStayEmpty ==
    expanding_ => \A b \in 0..(migrateCursor_ - 1) : Len(old_[b]) = 0

\* C19: between operations expanding_ never holds with migrateCursor_ at
\* the end of old_; the insert in which the cursor reaches the end (the
\* finalizing insert) leaves expanding_ false, new_ released, old_ and
\* oldCap_ at twice the capacity C it found, and its placement is made on
\* that table with the capacity 2 * C.
C19_AtomicFinalization ==
    /\ [](expanding_ => (0 <= migrateCursor_ /\ migrateCursor_ < oldCap_))
    /\ [][ (lastOp' = "insert" /\ lastStep'.finalized)
             => /\ ~expanding_'
                /\ TableSize(new_') = 0 /\ newCap_' = 0
                /\ oldCap_' = 2 * oldCap_ /\ TableSize(old_') = 2 * oldCap_
                /\ \E g \in maybeExpand(Members, size_) :
                      /\ ~g.expanding /\ TableSize(g.old) = 2 * oldCap_
                      /\ \E o \in place(g.old, lastKey', 2 * oldCap_) :
                            old_' = o.arr /\ lastRes' = o.ok
                /\ lastStep'.attempt = 1
                      => has(old_', idxHash(lastKey') % (2 * oldCap_),
                             makeFp(lastKey'))
          ]_vars

\* C19 witness: a finalizing insert has put its fingerprint into a bucket of
\* the upper half of the doubled table.
C19_Witness ==
    /\ Placed /\ lastStep.finalized /\ ~lastStep.started /\ lastStep.attempt = 1
    /\ ~expanding_ /\ oldCap_ = 2 * hist.startCap
    /\ idxHash(lastKey) % oldCap_ >= hist.startCap
    /\ has(old_, idxHash(lastKey) % oldCap_, makeFp(lastKey))

\* C20: the length of old_ is a power of two in every state of every filter
\* the constructor builds, and so is the length of new_ while expanding_.
C20_PowerOfTwoCapacity ==
    /\ IsPow2(TableSize(old_))
    /\ expanding_ => IsPow2(TableSize(new_))

\* C21: between operations expanding_ holds exactly when new_ has buckets,
\* and then new_ has 2 * C_old buckets (C_old the length of old_) and
\* newCap_ records that; when expanding_ is false new_ has no bucket and
\* newCap_ is 0.  From one state with expanding_ to the next with expanding_
\* the expansion is the same one: same tables' lengths, and new_ holds at
\* least as many fingerprints as before.
C21_NewTablePresence ==
    /\ [](/\ expanding_ <=> TableSize(new_) > 0
          /\ expanding_ => /\ TableSize(new_) = 2 * TableSize(old_)
                           /\ newCap_ = TableSize(new_)
          /\ ~expanding_ => (TableSize(new_) = 0 /\ newCap_ = 0))
    /\ [][ (expanding_ /\ expanding_')
             => /\ TableSize(new_') = TableSize(new_)
                /\ TableSize(old_') = TableSize(old_)
                /\ migrateCursor_' >= migrateCursor_
                /\ Stored(new_', 0) >= Stored(new_, 0) ]_vars

\* C21 witness: an expansion of a table of 4 buckets is in its second insert
\* and new_ has 8 buckets.
C21_Witness ==
    /\ expanding_ /\ Placed /\ ~lastStep.started /\ hist.sinceStart >= 2
    /\ TableSize(old_) = 4 /\ TableSize(new_) = 8 /\ newCap_ = 8

\* C22: an insert that is not deduplicated, made while expanding_ is false,
\* starts an expansion exactly when size_ / (C_old * B_) before the call is
\* strictly above loadF_; the expansion it starts has a new_ of 2 * C_old
\* buckets and has drained its first segment from cursor 0 (or is already
\* finalized, with the capacity doubled); otherwise new_, the cursor and the
\* capacity stay as they were.
C22_ExpansionTrigger ==
    [][ (lastOp' = "insert" /\ ~lastStep'.dedup /\ ~expanding_)
        => /\ (expanding_' \/ oldCap_' /= oldCap_)
                <=> size_ * loadF_[2] > loadF_[1] * oldCap_ * B_
           /\ expanding_' => /\ TableSize(new_') = 2 * oldCap_
                             /\ migrateCursor_' = Min(segSz_, oldCap_)
                             /\ oldCap_' = oldCap_
           /\ (~expanding_' /\ oldCap_' /= oldCap_) => oldCap_' = 2 * oldCap_
           /\ (~expanding_' /\ oldCap_' = oldCap_)
                => (new_' = new_ /\ migrateCursor_' = migrateCursor_)
      ]_vars

\* C22 witness: an insert made with size_ / (C_old * B_) equal to loadF_ has
\* placed its fingerprint without starting an expansion.
C22_Witness ==
    /\ Placed /\ lastRes /\ ~expanding_ /\ hist.expansions = 0
    /\ (size_ - 1) * loadF_[2] = loadF_[1] * oldCap_ * B_
    /\ size_ >= 2

\* the multiset of the fingerprints of one bucket
BucketBag(bucket) == [fp \in Fps |-> CountInBucket(bucket, 1, fp)]

\* C23: every insert that is not deduplicated and runs while expanding_ (the
\* one that starts the expansion and those that end in overflow included)
\* drains exactly the buckets [from, end) of old_, from being
\* migrateCursor_ (0 when it starts the expansion) and end being
\* min(from + segSz_, C_old): after the drain those buckets are empty, every
\* other bucket of old_ is untouched, each bucket of the new table holds
\* what it held plus what the old bucket of the same number held, and
\* migrateCursor_ is end; the placement of the key follows on that state.
\* Within one expansion migrateCursor_ never decreases.
C23_DrainStep ==
    [][ /\ (expanding_ /\ expanding_') => migrateCursor_' >= migrateCursor_
        /\ (lastOp' = "insert" /\ ~lastStep'.dedup
               /\ (expanding_ \/ expanding_' \/ oldCap_' /= oldCap_))
           => LET from   == IF expanding_ THEN migrateCursor_ ELSE 0
                  end    == Min(from + segSz_, oldCap_)
                  before == IF expanding_ THEN new_ ELSE Table(2 * oldCap_)
              IN  /\ migrateCursor_' = end
                  /\ \E g \in maybeExpand(Members, size_) :
                        /\ g.cursor = end
                        /\ g.expanding = expanding_' /\ g.new = new_'
                        /\ \E o \in place(g.old, lastKey', g.oldCap) :
                              old_' = o.arr /\ lastRes' = o.ok
                        /\ g.expanding =>
                              \A b \in DOMAIN old_ :
                                 g.old[b] = IF from <= b /\ b < end
                                            THEN <<>> ELSE old_[b]
                        /\ LET into == IF g.expanding THEN g.new ELSE g.old
                           IN  \A b \in DOMAIN into :
                                 BucketBag(into[b]) =
                                    IF from <= b /\ b < end
                                    THEN BagSum(BucketBag(before[b]),
                                                BucketBag(old_[b]))
                                    ELSE BucketBag(before[b])
      ]_vars

\* C23 witness: an insert that ended in overflow has advanced the cursor of
\* an expansion started by an earlier insert.
C23_Witness ==
    /\ Placed /\ ~lastRes /\ expanding_ /\ ~lastStep.started
    /\ hist.sinceStart >= 2 /\ migrateCursor_ = hist.sinceStart * segSz_

\* C24: between operations size_ is the number of fingerprints stored in
\* old_ plus the number stored in new_.
C24_SizeCountsSlots ==
    size_ = Stored(old_, 0) + Stored(new_, 0)

\* C26: an insert that is not deduplicated places the fingerprint, on the
\* old table as maybeExpand left it, by the first of these that succeeds:
\* tryPut at i1, the chain from i1, tryPut at i2, the chain from i2.  When
\* bucket i1 has a free slot the fingerprint is appended to it and no other
\* bucket changes.
C26_PlacementOrder ==
    [][ (lastOp' = "insert" /\ ~lastStep'.dedup) =>
        \E g \in maybeExpand(Members, size_) :
           LET fp    == makeFp(lastKey')
               i1    == idxHash(lastKey') % g.oldCap
               i2    == altIndex(i1, fp, g.oldCap)
               at    == lastStep'.attempt
               free1 == Len(g.old[i1]) < B_
               put1  == [g.old EXCEPT ![i1] = Append(@, fp)]
           IN  /\ new_' = g.new /\ oldCap_' = g.oldCap
               /\ expanding_' = g.expanding /\ migrateCursor_' = g.cursor
               /\ free1 => (at = 1 /\ old_' = put1 /\ lastRes')
               /\ at = 1 => (free1 /\ old_' = put1)
               /\ at \in {0, 2, 3, 4} =>
                    /\ ~free1
                    /\ \E c1 \in cuckoo(g.old, i1, fp, 0) :
                         LET free2 == Len(c1.arr[i2]) < B_
                         IN  \/ at = 2 /\ c1.ok /\ old_' = c1.arr
                             \/ /\ at = 3 /\ ~c1.ok /\ free2
                                /\ old_' = [c1.arr EXCEPT ![i2] = Append(@, fp)]
                             \/ /\ at \in {0, 4} /\ ~c1.ok /\ ~free2
                                /\ \E c2 \in cuckoo(c1.arr, i2, fp, 0) :
                                     /\ c2.ok = (at = 4)
                                     /\ old_' = c2.arr
               /\ lastRes' = (at # 0) ]_vars

\* an insert placed by the chain from i2, after the three earlier attempts
\* failed
C26_Witness ==
    /\ lastOp = "insert"
    /\ lastStep.attempt = 4


\* C28: while expanding_, every bucket of new_ from migrateCursor_ on,
\* those from C_old on among them, is empty; and a drain step copies each
\* drained bucket of old_ into the empty bucket of the same number of the new
\* table, slot by slot in the order of old_, as tryPut alone does, leaving
\* the other buckets of the new table as they were: no fingerprint is
\* dropped and no eviction runs on new_.
C28_MigrationByTryPut ==
    /\ [](expanding_ =>
            \A b \in DOMAIN new_ : b >= migrateCursor_ => new_[b] = <<>>)
    /\ [][ (lastOp' = "insert" /\ ~lastStep'.dedup
               /\ (expanding_ \/ expanding_' \/ oldCap_' /= oldCap_))
           => LET from   == IF expanding_ THEN migrateCursor_ ELSE 0
                  end    == Min(from + segSz_, oldCap_)
                  before == IF expanding_ THEN new_ ELSE Table(2 * oldCap_)
              IN  \E g \in maybeExpand(Members, size_) :
                     LET into == IF g.expanding THEN g.new ELSE g.old
                     IN  /\ g.expanding = expanding_' /\ g.new = new_'
                         /\ \E o \in place(g.old, lastKey', g.oldCap) :
                               old_' = o.arr /\ lastRes' = o.ok
                         /\ \A b \in DOMAIN into :
                               IF from <= b /\ b < end
                               THEN before[b] = <<>> /\ into[b] = old_[b]
                               ELSE into[b] = before[b]
                         /\ ~MigrationLost(Members, g)
      ]_vars

\* a drain step of an expansion in progress has moved a bucket of two
\* fingerprints
C28_Witness ==
    /\ expanding_ /\ lastOp = "insert" /\ ~lastStep.dedup /\ ~lastStep.started
    /\ migrateCursor_ >= 1
    /\ Len(new_[migrateCursor_ - 1]) = 2

\* C29: a contains call leaves old_, new_, size_, expanding_, migrateCursor_,
\* oldCap_, newCap_ and the reported capacity as they were; expanding_ changes
\* only in insert calls; and a contains(k) that follows a contains(k) returns
\* the same answer.
C29_ContainsFrame ==
    [][ /\ lastOp' = "contains" =>
             /\ old_' = old_ /\ new_' = new_ /\ size_' = size_
             /\ expanding_' = expanding_ /\ migrateCursor_' = migrateCursor_
             /\ oldCap_' = oldCap_ /\ newCap_' = newCap_
             /\ capacity' = capacity
        /\ expanding_' /= expanding_ => lastOp' = "insert"
        /\ (lastOp = "contains" /\ lastOp' = "contains" /\ lastKey' = lastKey)
             => lastRes' = lastRes
      ]_vars

\* a contains made while an expansion is in progress, answering false for a
\* key inserted earlier
C29_Witness ==
    /\ lastOp = "contains" /\ expanding_ /\ migrateCursor_ >= 1
    /\ lastKey \in okKeys /\ ~lastRes

----------------------------------------------------------------------------
(* The alternate-index functions on their own *)

\* table lengths and fingerprints the functions are applied to
MaxAltCap == 16
MaxAltFp == 24

AltCaps == 1..MaxAltCap
AltFps == (0..MaxAltFp) \cup {FpRange - 1}

\* no BambooFilter has been constructed and no call has been made
BambooIdle ==
    /\ old_ = <<>> /\ new_ = <<>> /\ oldCap_ = 0 /\ newCap_ = 0
    /\ B_ = 0 /\ loadF_ = <<0, 1>> /\ maxEvict_ = 0 /\ segSz_ = 0
    /\ expanding_ = FALSE /\ migrateCursor_ = 0 /\ size_ = 0

HistIdle ==
    /\ lastOp = "none" /\ lastKey = 0 /\ lastRes = TRUE /\ lastStep = NoStep
    /\ okKeys = {} /\ preKeys = {} /\ midKeys = {}
    /\ hist = [overflowed |-> FALSE]

InitAlt ==
    /\ BambooIdle
    /\ MyIdle
    /\ HistIdle
    /\ \E fn \in {"altIndex", "alt_index_from_fp_val"} :
       \E cap \in AltCaps : \E fp \in AltFps : \E i \in 0..(cap - 1) :
          call = [fn |-> fn, cap |-> cap, fp |-> fp, trail |-> <<i>>]

\* the index reached so far
Last(trail) == trail[Len(trail)]

ApplyAltIndex ==
    /\ call.fn = "altIndex"
    /\ Len(call.trail) < 3
    /\ call' = [call EXCEPT
                   !.trail = Append(@, altIndex(Last(@), call.fp, call.cap))]
    /\ UNCHANGED <<filterVars, configVars, histVars, myVars>>

ApplyAltIndexFromFp ==
    /\ call.fn = "alt_index_from_fp_val"
    /\ Len(call.trail) < 3
    /\ call' = [call EXCEPT
                   !.trail = Append(@, alt_index_from_fp_val(Last(@), call.fp,
                                                             call.cap))]
    /\ UNCHANGED <<filterVars, configVars, histVars, myVars>>

NextAlt == ApplyAltIndex \/ ApplyAltIndexFromFp

SpecAlt == InitAlt /\ [][NextAlt]_vars

\* C11: on a table whose length is a power of two, either function applied
\* twice with the same fingerprint gives the index it started from.
C11_AltIndexInvolution ==
    (IsPow2(call.cap) /\ Len(call.trail) = 3) => call.trail[3] = call.trail[1]

\* C11 witness: alt_index_from_fp_val has been applied twice on a table of 8
\* buckets, moved away from the start index and come back to it.
C11_Witness ==
    /\ call.fn = "alt_index_from_fp_val" /\ call.cap = 8 /\ call.fp = FpRange - 1
    /\ Len(call.trail) = 3
    /\ call.trail[2] # call.trail[1] /\ call.trail[3] = call.trail[1]

----------------------------------------------------------------------------
(* The eviction chain on its own: cuckoo(arr, idx, fp, 0), one invocation of *)
(* the recursive function per step                                          *)

\* fingerprints in the tables the chain runs on, and the table lengths
\* (at length 8 the buckets of 1, 9, 17 and 25 are 1 and 4, those of 4 are 4
\* and 0)
ChainFps == {1, 4, 9, 17, 25}
ChainCaps == {4, 5, 8}
MaxChainEvict == 5

\* the bucket a fingerprint is put in by insert or by an eviction: its
\* primary bucket (a key below 65536 is its own index hash and its own
\* fingerprint) or the alternate of that
Home(fp, cap, where) ==
    IF where = "primary" THEN fp % cap ELSE altIndex(fp % cap, fp, cap)

RECURSIVE Arrange(_, _, _)
\* the table of cap buckets that holds each fingerprint of the set fps where
\* the function at says ("none", "primary" or "alternate")
Arrange(fps, cap, at) ==
    IF fps = {} THEN Table(cap)
    ELSE LET fp   == CHOOSE f \in fps : \A g \in fps : f >= g
             rest == Arrange(fps \ {fp}, cap, at)
         IN  IF at[fp] = "none" THEN rest
             ELSE [rest EXCEPT ![Home(fp, cap, at[fp])] = Append(@, fp)]

\* the invocation that overwrites the chosen slot and carries the incoming
\* fingerprint on instead of the evicted one
cuckooLevelOverwrite(c, exhausted) ==
    IF exhausted THEN {[c EXCEPT !.ret = "false"]}
    ELSE IF Len(c.arr[c.idx]) = 0 THEN {[c EXCEPT !.ret = "false"]}
    ELSE { LET victim == c.fp
               arr1   == [c.arr EXCEPT ![c.idx] = [@ EXCEPT ![d] = c.fp]]
               alt    == altIndex(c.idx, victim, TableSize(c.arr))
               put    == tryPut(arr1, alt, victim)
               move   == [from |-> c.idx, fp |-> victim, to |-> alt]
           IN  IF put.ok
               THEN [c EXCEPT !.arr = put.arr, !.ret = "true",
                              !.moves = Append(@, move)]
               ELSE [c EXCEPT !.arr = arr1, !.idx = alt, !.fp = victim,
                              !.depth = @ + 1, !.moves = Append(@, move)]
           : d \in 1..Len(c.arr[c.idx]) }

\* one invocation of cuckoo on the call record c; exhausted is the outcome of
\* the depth test
cuckooLevel(c, exhausted) ==
    IF exhausted THEN {[c EXCEPT !.ret = "false"]}
    ELSE IF Len(c.arr[c.idx]) = 0 THEN {[c EXCEPT !.ret = "false"]}
    ELSE { LET victim == c.arr[c.idx][d]
               arr1   == [c.arr EXCEPT ![c.idx] = [@ EXCEPT ![d] = c.fp]]
               alt    == altIndex(c.idx, victim, TableSize(c.arr))
               put    == tryPut(arr1, alt, victim)
               move   == [from |-> c.idx, fp |-> victim, to |-> alt]
           IN  IF put.ok
               THEN [c EXCEPT !.arr = put.arr, !.ret = "true",
                              !.moves = Append(@, move)]
               ELSE [c EXCEPT !.arr = arr1, !.idx = alt, !.fp = victim,
                              !.depth = @ + 1, !.moves = Append(@, move)]
           : d \in 1..Len(c.arr[c.idx]) }

\* the invocation with the test depth > maxEvict_
cuckooStepLate(c) == cuckooLevel(c, c.depth > maxEvict_)

cuckooStep(c) == cuckooLevel(c, c.depth >= maxEvict_)

InitCuckoo ==
    /\ old_ = <<>> /\ new_ = <<>> /\ oldCap_ = 0 /\ newCap_ = 0
    /\ loadF_ = <<0, 1>> /\ segSz_ = 0
    /\ expanding_ = FALSE /\ migrateCursor_ = 0 /\ size_ = 0
    /\ MyIdle
    /\ HistIdle
    /\ B_ \in {1, 2}
    /\ maxEvict_ \in 0..MaxChainEvict
    /\ \E cap \in ChainCaps :
       \E at \in [ChainFps -> {"none", "primary", "alternate"}] :
       \E fp \in ChainFps : \E where \in {"primary", "alternate"} :
          LET arr == Arrange(ChainFps, cap, at)
          IN  /\ \A b \in DOMAIN arr : Len(arr[b]) <= B_
              \* insert calls cuckoo after tryPut on the same bucket failed
              /\ Len(arr[Home(fp, cap, where)]) = B_
              /\ call = [fn |-> "cuckoo", arr |-> arr,
                         idx |-> Home(fp, cap, where), fp |-> fp, depth |-> 0,
                         ret |-> "running", arr0 |-> arr,
                         idx0 |-> Home(fp, cap, where), fp0 |-> fp,
                         moves |-> <<>>, calls |-> 0]

CuckooCall ==
    /\ call.fn = "cuckoo" /\ call.ret = "running"
    /\ \E c \in cuckooStep(call) : call' = [c EXCEPT !.calls = @ + 1]
    /\ UNCHANGED <<filterVars, configVars, histVars, myVars>>

NextCuckoo == CuckooCall

SpecCuckoo == InitCuckoo /\ [][NextCuckoo]_vars

\* C25: a call cuckoo(arr, idx, fp, 0) displaces at most maxEvict_
\* fingerprints and makes at most maxEvict_ + 1 invocations, the last of
\* which returns false; an unfinished call always has a next invocation, also
\* when the evicted fingerprint is the incoming one; with maxEvict_ = 0 the
\* call returns false and leaves the table as it was; and the finished call
\* is one of the outcomes of the recursive function.
C25_ChainBounded ==
    /\ Len(call.moves) <= maxEvict_
    /\ call.depth <= maxEvict_
    /\ call.calls <= maxEvict_ + 1
    /\ call.ret = "running" => cuckooStep(call) # {}
    /\ call.calls = maxEvict_ + 1 => call.ret = "false"
    /\ (call.ret # "running" /\ maxEvict_ = 0) =>
          (call.ret = "false" /\ call.arr = call.arr0)
    /\ call.ret # "running" =>
          [ok |-> call.ret = "true", arr |-> call.arr]
             \in cuckoo(call.arr0, call.idx0, call.fp0, 0)

\* a call that gave up after maxEvict_ displacements, the first of which
\* evicted a fingerprint equal to the incoming one
C25_Witness ==
    /\ call.ret = "false"
    /\ maxEvict_ >= 2
    /\ Len(call.moves) = maxEvict_
    /\ call.moves[1].fp = call.fp0

\* the multiset of the fingerprints a table of the chain stores
ChainBag(arr) == [fp \in ChainFps |-> CountInTable(arr, 0, fp)]

\* the fingerprint of the k-th displacement of the call is stored in the
\* bucket it was moved to
SitsAtTarget(k) ==
    \E j \in 1..Len(call.arr[call.moves[k].to]) :
       call.arr[call.moves[k].to][j] = call.moves[k].fp

\* a later displacement of the call evicted the same fingerprint from the
\* bucket the k-th displacement moved it to
EvictedAgain(k) ==
    \E m \in (k + 1)..Len(call.moves) :
       /\ call.moves[m].from = call.moves[k].to
       /\ call.moves[m].fp = call.moves[k].fp

\* C27 as stated: after a call cuckoo(arr, idx, fp, 0) that returned true on
\* a table of power-of-two length, the table stores what it stored before
\* plus fp, and every displaced fingerprint sits in the alternate bucket of
\* the bucket it was evicted from.
C27_MovedSitAtAlternate ==
    (call.ret = "true" /\ IsPow2(TableSize(call.arr))) =>
       /\ ChainBag(call.arr)
            = [ChainBag(call.arr0) EXCEPT ![call.fp0] = @ + 1]
       /\ \A k \in 1..Len(call.moves) :
            /\ call.moves[k].to = altIndex(call.moves[k].from,
                                            call.moves[k].fp,
                                            TableSize(call.arr))
            /\ SitsAtTarget(k)

\* C27, amended: after a call cuckoo(arr, idx, fp, 0) that returned true on
\* a table of power-of-two length, the table stores what it stored before
\* plus fp, and every displaced fingerprint was moved to the alternate bucket
\* of the bucket it was evicted from and sits there unless a later
\* displacement of the same call evicted it from there again.
C27_ChainLosesNothing ==
    (call.ret = "true" /\ IsPow2(TableSize(call.arr))) =>
       /\ ChainBag(call.arr)
            = [ChainBag(call.arr0) EXCEPT ![call.fp0] = @ + 1]
       /\ \A k \in 1..Len(call.moves) :
            /\ call.moves[k].to = altIndex(call.moves[k].from,
                                            call.moves[k].fp,
                                            TableSize(call.arr))
            /\ SitsAtTarget(k) \/ EvictedAgain(k)

\* a successful call on a power-of-two table that displaced one fingerprint
\* twice
C27_Witness ==
    /\ call.ret = "true"
    /\ IsPow2(TableSize(call.arr))
    /\ \E k \in 1..Len(call.moves) : EvictedAgain(k) /\ ~SitsAtTarget(k)

----------------------------------------------------------------------------
(* MyBambooFilter: hashing *)

\* A key is represented by fnv1a_hash_str of it, written Hash(hi, lo): lo the
\* low 16 bits (the fingerprint), hi the bits above them (the bucket index).
Hash(hi, lo) == hi * FpRange + lo

fingerprint_from_hash_val(h) ==
    LET fp == h % FpRange IN IF fp = 0 THEN 1 ELSE fp

\* (h >> 16) % num_buckets_param
index_from_hash_val(h, num_buckets_param) ==
    (h \div FpRange) % num_buckets_param

\* a Slot is the pair <<fingerprint, original hash>>
Slot(h) == <<fingerprint_from_hash_val(h), h>>

\* the members a call works on: [table, n, count] for table_, num_buckets_,
\* current_items_count_
MyMembers ==
    [table |-> table_, n |-> num_buckets_, count |-> current_items_count_]

\* for (const auto& slot : bucket) if (slot.first == fp) return true
hasFp(bucket, fp) == \E j \in 1..Len(bucket) : bucket[j][1] = fp

\* contains(key) evaluated on the members m
my_containsIn(m, h) ==
    IF m.n = 0 THEN FALSE
    ELSE LET fp == fingerprint_from_hash_val(h)
             i1 == index_from_hash_val(h, m.n)
         IN  IF i1 >= TableSize(m.table) THEN FALSE
             ELSE IF hasFp(m.table[i1], fp) THEN TRUE
             ELSE LET i2 == alt_index_from_fp_val(i1, fp, m.n)
                  IN  IF i2 >= TableSize(m.table) THEN FALSE
                      ELSE hasFp(m.table[i2], fp)

my_contains(h) == my_containsIn(MyMembers, h)

----------------------------------------------------------------------------
(* MyBambooFilter: placement *)

push_back(t, idx, slot) == [t EXCEPT ![idx] = Append(@, slot)]

RECURSIVE kick_loop_alt_of_current(_, _, _, _, _)
\* the eviction loop that always sends the victim to the alternate index of
\* the bucket it was taken from
kick_loop_alt_of_current(t, n, slot_to_place, current_bucket_idx, kick_count) ==
    IF kick_count >= max_cuckoo_kicks_
    THEN {[table |-> push_back(t, current_bucket_idx, slot_to_place),
           path |-> "stash"]}
    ELSE IF Len(t[current_bucket_idx]) = 0
    THEN {[table |-> push_back(t, current_bucket_idx, slot_to_place),
           path |-> "recover"]}
    ELSE UNION {
        LET victim == t[current_bucket_idx][d]
            t1     == [t EXCEPT ![current_bucket_idx] =
                                    [@ EXCEPT ![d] = slot_to_place]]
            nxt    == alt_index_from_fp_val(current_bucket_idx, victim[1], n)
        IN  IF Len(t1[nxt]) < slots_per_bucket_
            THEN {[table |-> push_back(t1, nxt, victim), path |-> "kick"]}
            ELSE kick_loop_alt_of_current(t1, n, victim, nxt, kick_count + 1)
        : d \in 1..Len(t[current_bucket_idx]) }

RECURSIVE kick_loop(_, _, _, _, _)
\* The eviction loop of _attempt_insert_or_kick from iteration kick_count on:
\* every outcome [table, path], one for each victim the random engine can
\* pick; path tells how the call ended.
kick_loop(t, n, slot_to_place, current_bucket_idx, kick_count) ==
    IF kick_count >= max_cuckoo_kicks_
    THEN {[table |-> push_back(t, current_bucket_idx, slot_to_place),
           path |-> "stash"]}
    ELSE IF Len(t[current_bucket_idx]) = 0
    THEN {[table |-> push_back(t, current_bucket_idx, slot_to_place),
           path |-> "recover"]}
    ELSE UNION {
        LET victim == t[current_bucket_idx][d]
            t1     == [t EXCEPT ![current_bucket_idx] =
                                    [@ EXCEPT ![d] = slot_to_place]]
            victim_original_primary_idx == index_from_hash_val(victim[2], n)
            nxt    == IF current_bucket_idx = victim_original_primary_idx
                      THEN alt_index_from_fp_val(victim_original_primary_idx,
                                                 victim[1], n)
                      ELSE victim_original_primary_idx
        IN  IF Len(t1[nxt]) < slots_per_bucket_
            THEN {[table |-> push_back(t1, nxt, victim), path |-> "kick"]}
            ELSE kick_loop(t1, n, victim, nxt, kick_count + 1)
        : d \in 1..Len(t[current_bucket_idx]) }

\* _attempt_insert_or_kick without the final stash: after max_cuckoo_kicks_
\* kicks the displaced slot is dropped (no bucket is then ever longer than
\* slots_per_bucket_, so cutting the buckets to that length removes exactly
\* the slot the stash appended)
attempt_without_stash(t, n, original_hash_of_item) ==
    LET slot == Slot(original_hash_of_item)
        i1   == index_from_hash_val(original_hash_of_item, n)
        i2   == alt_index_from_fp_val(i1, slot[1], n)
    IN  IF Len(t[i1]) < slots_per_bucket_
        THEN {[table |-> push_back(t, i1, slot), path |-> "primary"]}
        ELSE IF Len(t[i2]) < slots_per_bucket_
        THEN {[table |-> push_back(t, i2, slot), path |-> "alternate"]}
        ELSE { IF o.path = "stash"
               THEN [o EXCEPT !.table =
                        [b \in DOMAIN o.table |->
                            SubSeq(o.table[b], 1,
                                   Min(Len(o.table[b]), slots_per_bucket_))]]
               ELSE o
               : o \in UNION { kick_loop(t, n, slot, start, 0)
                               : start \in {i1, i2} } }

\* _attempt_insert_or_kick(original_hash_of_item) on the table t of n buckets
_attempt_insert_or_kick(t, n, original_hash_of_item) ==
    LET slot == Slot(original_hash_of_item)
        i1   == index_from_hash_val(original_hash_of_item, n)
        i2   == alt_index_from_fp_val(i1, slot[1], n)
    IN  IF Len(t[i1]) < slots_per_bucket_
        THEN {[table |-> push_back(t, i1, slot), path |-> "primary"]}
        ELSE IF Len(t[i2]) < slots_per_bucket_
        THEN {[table |-> push_back(t, i2, slot), path |-> "alternate"]}
        ELSE UNION { kick_loop(t, n, slot, start, 0) : start \in {i1, i2} }

----------------------------------------------------------------------------
(* MyBambooFilter: expansion and insert *)

RECURSIVE hashes_of_bucket(_, _)
\* slot_item.second of every slot of the bucket whose fingerprint is not 0,
\* from position j on
hashes_of_bucket(bucket, j) ==
    IF j > Len(bucket) THEN <<>>
    ELSE (IF bucket[j][1] /= 0 THEN <<bucket[j][2]>> ELSE <<>>)
         \o hashes_of_bucket(bucket, j + 1)

RECURSIVE all_original_hashes(_, _)
\* step 1 of rebuild_table, from bucket b on
all_original_hashes(t, b) ==
    IF b >= TableSize(t) THEN <<>>
    ELSE hashes_of_bucket(t[b], 1) \o all_original_hashes(t, b + 1)

RECURSIVE reinsert(_, _, _)
\* step 4 of rebuild_table from position j of the collected hashes on: every
\* members record the loop can end in
reinsert(m, hashes, j) ==
    IF j > Len(hashes) THEN {m}
    ELSE UNION { reinsert([m EXCEPT !.table = o.table, !.count = @ + 1],
                          hashes, j + 1)
                 : o \in _attempt_insert_or_kick(m.table, m.n, hashes[j]) }

rebuild_table(m) ==
    reinsert([table |-> Table(2 * m.n), n |-> 2 * m.n, count |-> 0],
             all_original_hashes(m.table, 0), 1)

\* loadFactor() >= max_load_factor_, the threshold being num/den
loadFactorReached(m) ==
    LET total_physical_slots == m.n * slots_per_bucket_
    IN  IF total_physical_slots = 0
        THEN 0 >= max_load_factor_[1]
        ELSE m.count * max_load_factor_[2]
                 >= max_load_factor_[1] * total_physical_slots

\* maybe_expand that rebuilds again while the load factor is still reached
maybe_expand_repeat(m) ==
    IF loadFactorReached(m)
    THEN UNION { IF loadFactorReached(g) THEN rebuild_table(g) ELSE {g}
                 : g \in rebuild_table(m) }
    ELSE {m}

maybe_expand(m) ==
    IF loadFactorReached(m) THEN rebuild_table(m) ELSE {m}

\* insert(key) on the members m: every outcome [m, dedup, rebuilt, path]
my_insert(m, h) ==
    IF my_containsIn(m, h)
    THEN {[m |-> m, dedup |-> TRUE, rebuilt |-> FALSE, path |-> "none"]}
    ELSE UNION {
        {[m |-> [g EXCEPT !.table = o.table, !.count = @ + 1],
          dedup |-> FALSE, rebuilt |-> g.n /= m.n, path |-> o.path]
         : o \in _attempt_insert_or_kick(g.table, g.n, h)}
        : g \in maybe_expand(m) }

----------------------------------------------------------------------------
(* MyBambooFilter: configurations and calls *)

\* No rebuild is started that would make the table longer than MaxBuckets.
MaxBuckets == 8

\* The hashes of the keys handed to insert and contains.
\*   Hash(0,7), Hash(2,7) : one fingerprint, one bucket of 2, two buckets of 4
\*   Hash(1,5), Hash(3,5) : the same with the odd buckets
\*   Hash(1,0)            : low 16 bits 0, fingerprint 1
\*   Hash(2,2)            : an even fingerprint (alternate = primary for n = 2)
MyKeys == {Hash(0, 7), Hash(2, 7), Hash(1, 5), Hash(3, 5), Hash(1, 0), Hash(2, 2)}

\* One set of constructor arguments
MyCfg(n, s, l, k) == [n |-> n, slots |-> s, loadF |-> l, kicks |-> k]

\* The arguments MyBambooFilter's constructor is called with; it throws for
\* 0 buckets or 0 slots per bucket, so every filter that exists has both >= 1.
MyConfigs ==
    { MyCfg(2, 1, <<1, 1>>, 2),    \* rebuilds 2 -> 4 -> 8
      MyCfg(4, 1, <<2, 1>>, 1),    \* threshold 2.0: kicks and stashes
      MyCfg(3, 1, <<1, 1>>, 1),    \* a number of buckets that is no power of two
      MyCfg(2, 2, <<3, 4>>, 0),    \* no kicks at all
      MyCfg(1, 1, <<0, 1>>, 1) }   \* threshold 0: every insert rebuilds

MyConstruct(cfg) ==
    /\ cfg.n /= 0 /\ cfg.slots /= 0
    /\ num_buckets_ = cfg.n
    /\ slots_per_bucket_ = cfg.slots
    /\ max_load_factor_ = cfg.loadF
    /\ max_cuckoo_kicks_ = cfg.kicks
    /\ current_items_count_ = 0
    /\ table_ = Table(cfg.n)

MyNoStep == [dedup |-> FALSE, rebuilt |-> FALSE, path |-> "none"]

InitMy ==
    /\ BambooIdle
    /\ CallIdle
    /\ \E cfg \in MyConfigs : MyConstruct(cfg)
    /\ lastOp = "construct"
    /\ lastKey = 0
    /\ lastRes = TRUE
    /\ lastStep = MyNoStep
    /\ okKeys = {}
    /\ preKeys = {}
    /\ midKeys = {}
    /\ hist = [n0 |-> num_buckets_, rebuilds |-> 0, stashes |-> 0, placed |-> {}]

\* An insert that would rebuild is only taken while the doubled table stays
\* within MaxBuckets.
MyWithinBound ==
    ~loadFactorReached(MyMembers) \/ 2 * num_buckets_ <= MaxBuckets

MyInsert(h) ==
    /\ my_contains(h) \/ MyWithinBound
    /\ \E r \in my_insert(MyMembers, h) :
        /\ table_' = r.m.table
        /\ num_buckets_' = r.m.n
        /\ current_items_count_' = r.m.count
        /\ lastOp' = "insert"
        /\ lastKey' = h
        /\ lastRes' = TRUE
        /\ lastStep' = [dedup |-> r.dedup, rebuilt |-> r.rebuilt, path |-> r.path]
        /\ okKeys' = okKeys \cup {h}
        /\ hist' = [hist EXCEPT
                      !.rebuilds = IF r.rebuilt THEN @ + 1 ELSE @,
                      !.stashes = IF r.path = "stash" THEN @ + 1 ELSE @,
                      !.placed = IF r.dedup THEN @ ELSE @ \cup {h}]
    /\ UNCHANGED <<slots_per_bucket_, max_load_factor_, max_cuckoo_kicks_>>
    /\ UNCHANGED <<filterVars, configVars, preKeys, midKeys, call>>

MyContains(h) ==
    /\ lastOp' = "contains"
    /\ lastKey' = h
    /\ lastRes' = my_contains(h)
    /\ lastStep' = MyNoStep
    /\ UNCHANGED <<myVars, filterVars, configVars, okKeys, preKeys, midKeys,
                   hist, call>>

NextMy ==
    \/ \E h \in MyKeys : MyInsert(h)
    \/ \E h \in MyKeys : MyContains(h)

SpecMy == InitMy /\ [][NextMy]_vars

----------------------------------------------------------------------------
(* MyBambooFilter: properties *)

\* C13: contains is true of every key whose insert has returned, in every
\* later state.
C13_MyNoFalseNegative ==
    \A k \in okKeys : my_contains(k)

\* the original hashes stored in a table
StoredHashes(t) == UNION { {t[b][j][2] : j \in 1..Len(t[b])} : b \in DOMAIN t }

\* C14: size() is the number of slots stored in table_; an insert that is not
\* deduplicated raises size() by exactly one, also when it rebuilds the
\* table, and the rebuilt table stores every hash stored before.
C14_MySizeAccounting ==
    /\ current_items_count_ = Stored(table_, 0)
    /\ [][ /\ current_items_count_' = Stored(table_', 0)
           /\ (lastOp' = "insert" /\ ~lastStep'.dedup)
                 => /\ current_items_count_' = current_items_count_ + 1
                    /\ StoredHashes(table_') = StoredHashes(table_) \cup {lastKey'}
           /\ (lastOp' = "insert" /\ lastStep'.dedup)
                 => current_items_count_' = current_items_count_ ]_vars

\* C14 witness: an insert has rebuilt a table that held a stashed slot, and
\* the filter holds at least three slots.
C14_Witness ==
    /\ lastOp = "insert" /\ lastStep.rebuilt
    /\ hist.stashes >= 1 /\ current_items_count_ >= 3
    /\ current_items_count_ = Stored(table_, 0)

\* C15: capacity_buckets() never decreases; a call leaves it unchanged or
\* doubles it, and it doubles exactly in an insert of a key that contains
\* does not report, made when current_items_count_ / (num_buckets_ *
\* slots_per_bucket_) >= max_load_factor_.
C15_MyCapacityDoubling ==
    [][ /\ num_buckets_' >= num_buckets_
        /\ num_buckets_' \in {num_buckets_, 2 * num_buckets_}
        /\ (num_buckets_' = 2 * num_buckets_)
              <=> /\ lastOp' = "insert"
                  /\ ~my_contains(lastKey')
                  /\ current_items_count_ * max_load_factor_[2]
                        >= max_load_factor_[1] * num_buckets_ * slots_per_bucket_
      ]_vars

\* C15 witness: an insert has doubled the table a second time and the load
\* factor is still at the threshold after it.
C15_Witness ==
    /\ lastOp = "insert" /\ lastStep.rebuilt /\ hist.rebuilds >= 2
    /\ num_buckets_ = 4 * hist.n0
    /\ current_items_count_ * max_load_factor_[2]
          >= max_load_factor_[1] * num_buckets_ * slots_per_bucket_

\* a slot <<fp, h>> stored in bucket b of a table of n buckets is in its
\* primary bucket or in the alternate of that
AtMyCandidate(b, slot, n) ==
    LET i1 == index_from_hash_val(slot[2], n)
    IN  b = i1 \/ b = alt_index_from_fp_val(i1, slot[1], n)

\* C30: between operations every slot <<fp, h>> stored in bucket b of table_
\* has b = (h >> 16) % num_buckets_ or b = alt_index_from_fp_val of that
\* index, fp and num_buckets_, whatever num_buckets_ is and however the slot
\* got there (direct placement, a kick, the stash, rebuild_table).
C30_MyPlacementInvariant ==
    \A b \in DOMAIN table_ :
       \A j \in 1..Len(table_[b]) : AtMyCandidate(b, table_[b][j], num_buckets_)

\* a table of six buckets, rebuilt from three, in which a slot sits in its
\* alternate bucket and a bucket holds a stashed slot above
\* slots_per_bucket_
C30_Witness ==
    /\ num_buckets_ = 6 /\ hist.rebuilds >= 1
    /\ \E b \in DOMAIN table_ : Len(table_[b]) > slots_per_bucket_
    /\ \E b \in DOMAIN table_ : \E j \in 1..Len(table_[b]) :
          b /= index_from_hash_val(table_[b][j][2], num_buckets_)

=============================================================================
